---- MODULE Spec2Model ----
(***************************************************************************)
(* Model of store_data/store_db_milvus.py: the script drops and recreates  *)
(* two Milvus collections, then streams the rows of two CSV files through  *)
(* a per-row transformation and inserts each surviving row with one        *)
(* synchronous insert call.                                                *)
(*                                                                         *)
(* A CSV cell (a Python str) is a sequence of one-character strings over   *)
(* Chars. A Python value is a record [t, n, s, items] tagged by its type.  *)
(* Lists are 1-based here; At(arr, col) reads the source's 0-based index.  *)
(***************************************************************************)
EXTENDS Integers, Sequences, FiniteSets, TLC

(* Scaled stand-ins for the script's sizes: the row limit (20000 in   *)
(* `it > 20000`), max_length of every VARCHAR field (10000, also the  *)
(* literal in `len(data) > 10000`) and dim of the vector fields (128). *)
Limit == 2
MaxLen == 7
Dim == 2

(* Rows in the largest CSV file considered. *)
MaxRows == Limit + 5

(* ---------------------------------------------------------------- *)
(* Characters and Python values                                     *)
(* ---------------------------------------------------------------- *)

(* "sup2" stands for U+00B2 SUPERSCRIPT TWO: str.isnumeric() is True *)
(* for it, int() refuses it.                                         *)
Chars == {"1", "2", "sup2", "a", "'", " ", "[", "]", ","}
DecimalChars == {"1", "2"}
NumericChars == {"1", "2", "sup2"}

PyStr(chars) == [t |-> "str", n |-> 0, s |-> chars, items |-> <<>>]
PyInt(k) == [t |-> "int", n |-> k, s |-> <<>>, items |-> <<>>]
PyList(vals) == [t |-> "list", n |-> 0, s |-> <<>>, items |-> vals]
PyTuple(vals) == [t |-> "tuple", n |-> 0, s |-> <<>>, items |-> vals]

At(arr, col) == arr[col + 1]

(* str.isnumeric(): non-empty and every character numeric. *)
isnumeric(data) == Len(data) > 0 /\ \A i \in 1..Len(data) : data[i] \in NumericChars

DigitOf(c) == IF c = "1" THEN 1 ELSE 2

RECURSIVE DecimalValue(_)
DecimalValue(digits) ==
    IF Len(digits) = 0 THEN 0
    ELSE 10 * DecimalValue(SubSeq(digits, 1, Len(digits) - 1)) + DigitOf(digits[Len(digits)])

(* First index >= i of s that holds no blank, Len(s) + 1 if there is none. *)
SkipWs(s, i) ==
    IF \E j \in i..Len(s) : s[j] # " "
    THEN CHOOSE j \in i..Len(s) : s[j] # " " /\ \A k \in i..(j - 1) : s[k] = " "
    ELSE Len(s) + 1

(* Last index of s that holds no blank, 0 if there is none. *)
LastNonWs(s) ==
    IF \E j \in 1..Len(s) : s[j] # " "
    THEN CHOOSE j \in 1..Len(s) : s[j] # " " /\ \A k \in (j + 1)..Len(s) : s[k] = " "
    ELSE 0

(* int(str): surrounding whitespace is stripped, what remains must be *)
(* decimal digits; anything else raises ValueError.                   *)
int(data) ==
    LET body == SubSeq(data, SkipWs(data, 1), LastNonWs(data))
    IN  IF Len(body) > 0 /\ \A i \in 1..Len(body) : body[i] \in DecimalChars
        THEN [ok |-> TRUE, val |-> PyInt(DecimalValue(body))]
        ELSE [ok |-> FALSE, val |-> PyInt(0)]

(* str.replace("'", " ") *)
replace(data) == [i \in 1..Len(data) |-> IF data[i] = "'" THEN " " ELSE data[i]]

(* ---------------------------------------------------------------- *)
(* ast.literal_eval on strings over Chars: integer literals, quoted *)
(* strings (adjacent ones concatenate), bracketed lists, and a bare *)
(* comma-separated tuple at top level. Anything else raises.        *)
(* ---------------------------------------------------------------- *)

Fail == [ok |-> FALSE, val |-> PyInt(0), next |-> 0]
Parsed(v, j) == [ok |-> TRUE, val |-> v, next |-> j]

(* The element of a one-element set: The({e(x) : x \in {v}}) is e(v) with *)
(* v computed once.                                                        *)
The(S) == CHOOSE x \in S : TRUE

(* First index >= i of s that holds no decimal digit. *)
DigitsEnd(s, i) ==
    IF \E j \in i..Len(s) : s[j] \notin DecimalChars
    THEN CHOOSE j \in i..Len(s) : s[j] \notin DecimalChars
                                  /\ \A k \in i..(j - 1) : s[k] \in DecimalChars
    ELSE Len(s) + 1

(* s[i..i+2] is an opening triple quote: index of the first closing triple *)
(* quote after it, 0 if there is none.                                      *)
TripleClose(s, i) ==
    LET ends == {j \in (i + 3)..(Len(s) - 2) : s[j] = "'" /\ s[j + 1] = "'" /\ s[j + 2] = "'"}
    IN  IF ends = {} THEN 0 ELSE CHOOSE j \in ends : \A k \in ends : j <= k

(* s[i] is an opening single quote, not a triple one: index of the quote *)
(* that closes it, 0 if there is none.                                    *)
SingleClose(s, i) ==
    LET ends == {j \in (i + 1)..Len(s) : s[j] = "'"}
    IN  IF ends = {} THEN 0 ELSE CHOOSE j \in ends : \A k \in ends : j <= k

RECURSIVE ParseString(_, _, _)
(* s[i] is an opening quote; acc holds the text of the adjacent literals before it. *)
ParseString(s, i, acc) ==
    LET triple == i + 2 <= Len(s) /\ s[i + 1] = "'" /\ s[i + 2] = "'"
    IN  The({ IF close = 0 THEN Fail
              ELSE The({ IF after <= Len(s) /\ s[after] = "'"
                         THEN ParseString(s, after, text)
                         ELSE Parsed(PyStr(text), IF triple THEN close + 3 ELSE close + 1)
                         : after \in {SkipWs(s, IF triple THEN close + 3 ELSE close + 1)},
                           text \in {acc \o SubSeq(s, IF triple THEN i + 3 ELSE i + 1, close - 1)} })
              : close \in {IF triple THEN TripleClose(s, i) ELSE SingleClose(s, i)} })

RECURSIVE ParseValue(_, _)
RECURSIVE ParseItems(_, _, _)
(* i is the index of the first character of a value. *)
ParseValue(s, i) ==
    IF i > Len(s) THEN Fail
    ELSE IF s[i] \in DecimalChars
         THEN The({ Parsed(PyInt(DecimalValue(SubSeq(s, i, end - 1))), end)
                    : end \in {DigitsEnd(s, i)} })
    ELSE IF s[i] = "'" THEN ParseString(s, i, <<>>)
    ELSE IF s[i] = "[" THEN The({ ParseItems(s, j, <<>>) : j \in {SkipWs(s, i + 1)} })
    ELSE Fail

(* Inside brackets, at the index of an item or of the closing bracket. *)
ParseItems(s, i, acc) ==
    IF i > Len(s) THEN Fail
    ELSE IF s[i] = "]" THEN Parsed(PyList(acc), i + 1)
    ELSE The({ IF ~ v.ok THEN Fail
               ELSE The({ IF j > Len(s) THEN Fail
                          ELSE IF s[j] = ","
                               THEN The({ ParseItems(s, k, more)
                                          : k \in {SkipWs(s, j + 1)}, more \in {Append(acc, v.val)} })
                          ELSE IF s[j] = "]" THEN Parsed(PyList(Append(acc, v.val)), j + 1)
                          ELSE Fail
                          : j \in {SkipWs(s, v.next)} })
               : v \in {ParseValue(s, i)} })

RECURSIVE ParseTuple(_, _, _)
(* After a top-level comma, at the index of the next item or past the end. *)
ParseTuple(s, i, acc) ==
    IF i > Len(s) THEN Parsed(PyTuple(acc), i)
    ELSE The({ IF ~ v.ok THEN Fail
               ELSE The({ IF j > Len(s) THEN Parsed(PyTuple(Append(acc, v.val)), j)
                          ELSE IF s[j] = ","
                               THEN The({ ParseTuple(s, k, more)
                                          : k \in {SkipWs(s, j + 1)}, more \in {Append(acc, v.val)} })
                          ELSE Fail
                          : j \in {SkipWs(s, v.next)} })
               : v \in {ParseValue(s, i)} })

literal_eval(s) ==
    The({ IF ~ v.ok THEN [ok |-> FALSE, val |-> PyInt(0)]
          ELSE The({ IF j > Len(s) THEN [ok |-> TRUE, val |-> v.val]
                     ELSE IF s[j] = ","
                          THEN The({ [ok |-> tup.ok, val |-> tup.val]
                                     : tup \in {ParseTuple(s, SkipWs(s, j + 1), <<v.val>>)} })
                     ELSE [ok |-> FALSE, val |-> PyInt(0)]
                     : j \in {SkipWs(s, v.next)} })
          : v \in {ParseValue(s, SkipWs(s, 1))} })

(* ---------------------------------------------------------------- *)
(* Schemas                                                          *)
(* ---------------------------------------------------------------- *)

VarChar(name) == [name |-> name, dtype |-> "VARCHAR", max_length |-> MaxLen, dim |-> 0]
Int64(name) == [name |-> name, dtype |-> "INT64", max_length |-> 0, dim |-> 0]
FloatVector(name) == [name |-> name, dtype |-> "FLOAT_VECTOR", max_length |-> 0, dim |-> Dim]

movie_feature_fields ==
    << VarChar("cast"), VarChar("crew"), VarChar("keywords"), VarChar("adult"),
       VarChar("belongs_to_collection"), Int64("budget"), VarChar("genres"),
       VarChar("homepage"), Int64("id"), VarChar("original_language"),
       VarChar("original_title"), VarChar("overview"), Int64("popularity"),
       VarChar("poster_path"), VarChar("production_companies"),
       VarChar("production_countries"), VarChar("release_date"),
       VarChar("release_date_timestamp"), VarChar("have_release_date"),
       Int64("revenue"), Int64("runtime"), VarChar("spoken_languages"),
       VarChar("status"), VarChar("tagline"), VarChar("title"),
       Int64("vote_average"), Int64("vote_count"), FloatVector("movie_feature") >>

user_feature_fields ==
    << Int64("user_id"), VarChar("user_feature_20230101"), VarChar("user_feature_20220101"),
       VarChar("user_feature_20200101"), VarChar("user_feature_20150101"),
       FloatVector("user_feature_20100101") >>

Fields(coll) == IF coll = "movie" THEN movie_feature_fields ELSE user_feature_fields

(* ---------------------------------------------------------------- *)
(* The movie row transformation                                     *)
(* ---------------------------------------------------------------- *)

numeric_columns_idx == {5, 8, 12, 19, 20, 25, 26}

(* `len(data_arr) < 29` *)
TooShort(data_arr) == Len(data_arr) < Len(movie_feature_fields) + 1

(* The limit test written with >=. *)
OverLimit_AtLimit(count) == count >= Limit

(* The limit test written one too far. *)
OverLimit_OneLater(count) == count > Limit + 1

(* `it > 20000` *)
OverLimit(count) == count > Limit

(* `data.isnumeric() and col in numeric_columns_idx` *)
IsNumericColumn(data, col) == isnumeric(data) /\ col \in numeric_columns_idx

(* `len(data) > 10000` *)
TooLong(data) == Len(data) > MaxLen

(* One pass of the loop body over the cell at col: "ok" with the value *)
(* stored back into data_arr[col], "long" when the body sets            *)
(* long_data_exists and breaks, "int" when int(data) raises.            *)
ColumnBody(data, col) ==
    IF IsNumericColumn(data, col)
    THEN IF int(data).ok THEN [status |-> "ok", val |-> int(data).val]
                         ELSE [status |-> "int", val |-> PyStr(data)]
    ELSE IF TooLong(replace(data)) THEN [status |-> "long", val |-> PyStr(data)]
                                   ELSE [status |-> "ok", val |-> PyStr(replace(data))]

(* The loop over col, left to right: it ends at the first column whose *)
(* body breaks or raises, with that status; otherwise every cell has   *)
(* been replaced by its value.                                         *)
ColumnLoop(data_arr) ==
    LET stops == {col \in 0..(Len(data_arr) - 1) : ColumnBody(At(data_arr, col), col).status # "ok"}
        first == CHOOSE col \in stops : \A other \in stops : col <= other
    IN  IF stops = {}
        THEN [status |-> "ok",
              arr |-> [i \in 1..Len(data_arr) |-> ColumnBody(data_arr[i], i - 1).val]]
        ELSE [status |-> ColumnBody(At(data_arr, first), first).status, arr |-> <<>>]

(* `[[data] for data in data_arr]`: one column per value, one value per column. *)
Columns(data_arr) == [i \in 1..Len(data_arr) |-> <<data_arr[i]>>]

(* A row of at least 29 cells, from pop(0) to the building of insert_data; *)
(* "literal_eval" when the parse of the last cell raises.                  *)
MovieTransform(movie_feature) ==
    LET data_arr == Tail(movie_feature)
        looped == ColumnLoop(data_arr)
        last == looped.arr[Len(looped.arr)]
        vec == IF last.t = "str" THEN literal_eval(last.s) ELSE [ok |-> FALSE, val |-> last]
    IN  IF looped.status # "ok" THEN [status |-> looped.status, insert_data |-> <<>>]
        ELSE IF ~ vec.ok THEN [status |-> "literal_eval", insert_data |-> <<>>]
        ELSE [status |-> "ok",
              insert_data |-> Columns([looped.arr EXCEPT ![Len(looped.arr)] = vec.val])]

(* ---------------------------------------------------------------- *)
(* The user row transformation                                      *)
(* ---------------------------------------------------------------- *)

(* The for statement unpacks each row into seven names. *)
Unpacks(user_feature) == Len(user_feature) = Len(user_feature_fields) + 1

(* A row of seven cells, from int(userId) to the building of insert_data. *)
UserTransform(user_feature) ==
    LET userId == int(user_feature[2])
        vec == literal_eval(user_feature[7])
    IN  IF ~ userId.ok THEN [status |-> "int", insert_data |-> <<>>]
        ELSE IF ~ vec.ok THEN [status |-> "literal_eval", insert_data |-> <<>>]
        ELSE [status |-> "ok",
              insert_data |-> << <<userId.val>>, <<PyStr(user_feature[3])>>,
                                 <<PyStr(user_feature[4])>>, <<PyStr(user_feature[5])>>,
                                 <<PyStr(user_feature[6])>>, <<vec.val>> >>]

(* ---------------------------------------------------------------- *)
(* The rows the CSV files may hold                                  *)
(* ---------------------------------------------------------------- *)

Repeat(c, k) == [i \in 1..k |-> c]

(* "[1,1,...,1]" with k ones *)
VecText(k) == <<"[">> \o [i \in 1..(2 * k - 1) |-> IF i % 2 = 1 THEN "1" ELSE ","] \o <<"]">>

GoodVec == VecText(Dim)

TextCells ==
    { <<"a", "'", "a">>, <<"1", "2">>, <<>>, Repeat("a", MaxLen), Repeat("a", MaxLen + 1),
      Repeat("'", MaxLen + 1) }

NumberCells == { <<"sup2">>, <<"1", "sup2">>, <<>>, <<"a">>, <<" ", "1">>, Repeat("1", MaxLen + 1) }

VecCells ==
    { VecText(Dim - 1), <<"1">>, <<"a">>, <<>>, <<"[", "'", "a", "'", "]">>,
      <<"1", ",", "2">>, GoodVec \o Repeat(" ", MaxLen + 1 - Len(GoodVec)) }

GoodMovieRow ==
    [k \in 1..(Len(movie_feature_fields) + 1) |->
        IF k = 1 THEN <<"1">>
        ELSE IF k - 2 \in numeric_columns_idx THEN <<"1", "2">>
        ELSE IF k = Len(movie_feature_fields) + 1 THEN GoodVec
        ELSE <<"a">>]

(* cells[col] after the index column is dropped *)
Put(cells, col, c) == [cells EXCEPT ![col + 2] = c]

MovieRows ==
    {GoodMovieRow}
    \cup {Put(GoodMovieRow, 4, c) : c \in TextCells}
    \cup {Put(GoodMovieRow, 5, c) : c \in NumberCells}
    \cup {Put(GoodMovieRow, 27, c) : c \in VecCells}
    \cup { <<>>, SubSeq(GoodMovieRow, 1, Len(GoodMovieRow) - 1),
           GoodMovieRow \o <<GoodVec>>, GoodMovieRow \o <<<<"a">>>>,
           Put(Put(GoodMovieRow, 4, Repeat("a", MaxLen + 1)), 5, <<"sup2">>),
           Put(Put(GoodMovieRow, 5, <<"sup2">>), 6, Repeat("a", MaxLen + 1)) }

GoodUserRow == << <<"1">>, <<"1", "2">>, <<"a">>, <<"a">>, <<"a">>, <<"a">>, GoodVec >>

UserRows ==
    {GoodUserRow}
    \cup {Put(GoodUserRow, 0, c) : c \in NumberCells}
    \cup {Put(GoodUserRow, 1, c) : c \in TextCells}
    \cup {Put(GoodUserRow, 5, c) : c \in VecCells}
    \cup { <<>>, SubSeq(GoodUserRow, 1, Len(GoodUserRow) - 1), GoodUserRow \o <<<<"a">>>> }

(* A row the loop inserts when the limit does not stop it. *)
ValidMovieRow(cells) == ~ TooShort(cells) /\ MovieTransform(cells).status = "ok"
ValidUserRow(cells) == Unpacks(cells) /\ UserTransform(cells).status = "ok"

(* ---------------------------------------------------------------- *)
(* The script as a state machine                                    *)
(* ---------------------------------------------------------------- *)

VARIABLES
    pc,      \* the statement the script is at
    colls,   \* the server's collections: "stale" (left by an earlier run), "absent", "fresh"
    nrows,   \* data rows (after the header) of the open CSV file
    pos,     \* rows the open file's reader has returned
    row,     \* the row the reader returned last
    it,      \* the loop counter `it`
    sent,    \* insert_data of the insert call made by the last step, <<>> if it made none
    nIns,    \* completed insert calls per collection
    err,     \* the call that raised, once pc = "aborted"
    clean,   \* every row read from the open file is one its loop inserts
    loading  \* the collection whose CSV file was opened last, "none" before the first

vars == <<pc, colls, nrows, pos, row, it, sent, nIns, err, clean, loading>>

Collections == {"movie", "user"}

NoCall == <<>>

Init ==
    /\ pc = "connect"
    /\ colls \in [Collections -> {"stale", "absent"}]
    /\ nrows = 0
    /\ pos = 0
    /\ row = <<>>
    /\ it = 0
    /\ sent = NoCall
    /\ nIns = [c \in Collections |-> 0]
    /\ err = "none"
    /\ clean = TRUE
    /\ loading = "none"

(* utility.drop_collection(name) *)
Dropped(coll) == [colls EXCEPT ![coll] = "absent"]

(* Collection(name, schema): creates the collection unless the server holds one. *)
Created(coll) == [colls EXCEPT ![coll] = IF @ = "absent" THEN "fresh" ELSE @]

Connect ==
    /\ pc = "connect"
    /\ pc' = "drop_movie"
    /\ UNCHANGED <<colls, nrows, pos, row, it, sent, nIns, err, clean, loading>>

DropMovie ==
    /\ pc = "drop_movie"
    /\ colls' = Dropped("movie")
    /\ pc' = "create_movie"
    /\ UNCHANGED <<nrows, pos, row, it, sent, nIns, err, clean, loading>>

CreateMovie ==
    /\ pc = "create_movie"
    /\ colls' = Created("movie")
    /\ pc' = "drop_user"
    /\ UNCHANGED <<nrows, pos, row, it, sent, nIns, err, clean, loading>>

DropUser ==
    /\ pc = "drop_user"
    /\ colls' = Dropped("user")
    /\ pc' = "create_user"
    /\ UNCHANGED <<nrows, pos, row, it, sent, nIns, err, clean, loading>>

CreateUser ==
    /\ pc = "create_user"
    /\ colls' = Created("user")
    /\ pc' = "open_movie"
    /\ UNCHANGED <<nrows, pos, row, it, sent, nIns, err, clean, loading>>

(* open, csv.reader, next(reader, None), it = 0 *)
OpenFile(at, to, coll) ==
    /\ pc = at
    /\ loading' = coll
    /\ nrows' \in 0..MaxRows
    /\ pos' = 0
    /\ row' = <<>>
    /\ it' = 0
    /\ clean' = TRUE
    /\ sent' = NoCall
    /\ pc' = to
    /\ UNCHANGED <<colls, nIns, err>>

(* The for statement takes the next row from the reader. *)
Fetch(at, to, cells, valid) ==
    /\ pc = at
    /\ pos < nrows
    /\ row' = cells
    /\ pos' = pos + 1
    /\ clean' = (clean /\ valid)
    /\ sent' = NoCall
    /\ pc' = to
    /\ UNCHANGED <<colls, nrows, it, nIns, err, loading>>

(* The reader is exhausted (or the loop broke): the loop and its with block end. *)
Leave(at, to) ==
    /\ pc = at
    /\ pc' = to
    /\ sent' = NoCall
    /\ UNCHANGED <<colls, nrows, pos, row, it, nIns, err, clean, loading>>

(* `continue` *)
Skip(to) ==
    /\ pc' = to
    /\ sent' = NoCall
    /\ UNCHANGED <<colls, nrows, pos, row, it, nIns, err, clean, loading>>

(* An exception nothing catches ends the script. *)
Raise(what) ==
    /\ pc' = "aborted"
    /\ err' = what
    /\ sent' = NoCall
    /\ UNCHANGED <<colls, nrows, pos, row, it, nIns, clean, loading>>

(* collection.insert(insert_data); it += 1 *)
Insert(coll, insert_data, to) ==
    /\ sent' = insert_data
    /\ nIns' = [nIns EXCEPT ![coll] = @ + 1]
    /\ it' = it + 1
    /\ pc' = to
    /\ UNCHANGED <<colls, nrows, pos, row, err, clean, loading>>

OpenMovie == OpenFile("open_movie", "movie_for", "movie")

MovieFetch ==
    \E cells \in MovieRows : Fetch("movie_for", "movie_body", cells, ValidMovieRow(cells))

MovieExhausted == pos = nrows /\ Leave("movie_for", "open_user")

MovieSkipShort ==
    /\ pc = "movie_body"
    /\ TooShort(row)
    /\ Skip("movie_for")

MovieBreak ==
    /\ pc = "movie_body"
    /\ ~ TooShort(row)
    /\ OverLimit(it)
    /\ Leave("movie_body", "open_user")

(* The loop without its `if long_data_exists: continue`. *)
MovieSkipLong_Inserts ==
    /\ pc = "movie_body"
    /\ ~ TooShort(row)
    /\ ~ OverLimit(it)
    /\ MovieTransform(row).status = "long"
    /\ Insert("movie", Columns([i \in 1..(Len(row) - 1) |-> PyStr(row[i + 1])]), "movie_for")

MovieSkipLong ==
    /\ pc = "movie_body"
    /\ ~ TooShort(row)
    /\ ~ OverLimit(it)
    /\ MovieTransform(row).status = "long"
    /\ Skip("movie_for")

MovieRaise ==
    /\ pc = "movie_body"
    /\ ~ TooShort(row)
    /\ ~ OverLimit(it)
    /\ MovieTransform(row).status \in {"int", "literal_eval"}
    /\ Raise(MovieTransform(row).status)

MovieInsert ==
    /\ pc = "movie_body"
    /\ ~ TooShort(row)
    /\ ~ OverLimit(it)
    /\ MovieTransform(row).status = "ok"
    /\ Insert("movie", MovieTransform(row).insert_data, "movie_for")

OpenUser == OpenFile("open_user", "user_for", "user")

UserFetch ==
    \E cells \in UserRows : Fetch("user_for", "user_unpack", cells, ValidUserRow(cells))

UserExhausted == pos = nrows /\ Leave("user_for", "done")

UserUnpack ==
    /\ pc = "user_unpack"
    /\ Unpacks(row)
    /\ Skip("user_body")

UserUnpackRaise ==
    /\ pc = "user_unpack"
    /\ ~ Unpacks(row)
    /\ Raise("unpack")

UserBreak ==
    /\ pc = "user_body"
    /\ OverLimit(it)
    /\ Leave("user_body", "done")

UserRaise ==
    /\ pc = "user_body"
    /\ ~ OverLimit(it)
    /\ UserTransform(row).status \in {"int", "literal_eval"}
    /\ Raise(UserTransform(row).status)

UserInsert ==
    /\ pc = "user_body"
    /\ ~ OverLimit(it)
    /\ UserTransform(row).status = "ok"
    /\ Insert("user", UserTransform(row).insert_data, "user_for")

Next ==
    \/ Connect \/ DropMovie \/ CreateMovie \/ DropUser \/ CreateUser
    \/ OpenMovie \/ MovieFetch \/ MovieExhausted \/ MovieSkipShort \/ MovieBreak
    \/ MovieSkipLong \/ MovieRaise \/ MovieInsert
    \/ OpenUser \/ UserFetch \/ UserExhausted \/ UserUnpack \/ UserUnpackRaise
    \/ UserBreak \/ UserRaise \/ UserInsert

Spec == Init /\ [][Next]_vars
(* ---------------------------------------------------------------- *)
(* Properties                                                       *)
(* ---------------------------------------------------------------- *)

(* The last step made an insert call. *)
Called == sent # NoCall

(* The value the call carries for the k-th field. *)
SentValue(k) == sent[k][1]

OnlyDecimals(data) == Len(data) > 0 /\ \A i \in 1..Len(data) : data[i] \in DecimalChars

(* C1: no row's content ends the run in an error: the script never stops *)
(* on an exception raised while it handles a row.                        *)
C1_BadRowNeverAborts == ~ (pc = "aborted" /\ err \in {"unpack", "int", "literal_eval"})

(* C2, as claimed: with a source of Limit+5 valid rows the loop ends with *)
(* Limit+1 rows inserted and Limit+1 rows read, for either loop.          *)
C2_StopsAfterLimitPlusOneRows ==
    (pc \in {"open_user", "done"} /\ nrows = Limit + 5 /\ clean)
        => (nIns[loading] = Limit + 1 /\ pos = Limit + 1)

(* C2, amended: with a source of Limit+5 valid rows the loop ends with   *)
(* Limit+1 rows inserted and Limit+2 rows read: row Limit+2 is read, not *)
(* inserted, and the break leaves the last 3 rows unread.                *)
C2_StopsOnRowLimitPlusTwo ==
    (pc \in {"open_user", "done"} /\ nrows = Limit + 5 /\ clean)
        => (nIns[loading] = Limit + 1 /\ it = Limit + 1 /\ pos = Limit + 2 /\ ~ Called)

C2_Witness ==
    /\ pc = "done"
    /\ nrows = Limit + 5
    /\ clean
    /\ pos = Limit + 2
    /\ nIns["movie"] = Limit + 1
    /\ nIns["user"] = Limit + 1

(* C3: no insert call carries a text value longer than max_length. *)
C3_NoOverlongVarChar ==
    Called => \A k \in 1..Len(sent) : SentValue(k).t = "str" => Len(SentValue(k).s) <= MaxLen

(* C4: the vector field of every insert call is a list of exactly dim numbers. *)
C4_VectorHasDimNumbers ==
    Called => /\ SentValue(Len(sent)).t = "list"
              /\ Len(SentValue(Len(sent)).items) = Dim
              /\ \A i \in 1..Len(SentValue(Len(sent)).items) : SentValue(Len(sent)).items[i].t = "int"

(* C5: a row with fewer cells than the loading collection has fields is *)
(* skipped: nothing is inserted for it and the run goes on.             *)
C5_ShortRowSkipped ==
    (loading # "none" /\ pos > 0 /\ Len(row) < Len(Fields(loading)))
        => (pc # "aborted" /\ ~ Called)

(* C6: in a movie row a cell becomes an integer exactly when its column is *)
(* in the allowlist and it holds decimal digits only, every such cell      *)
(* converts to the integer it denotes, and no conversion raises.           *)
C6_PositionGatedCoercion ==
    /\ ~ (pc = "aborted" /\ loading = "movie" /\ err = "int")
    /\ (Called /\ loading = "movie") =>
          \A col \in 0..(Len(sent) - 2) :
              /\ At(sent, col)[1].t = "int"
                    <=> (col \in numeric_columns_idx /\ OnlyDecimals(row[col + 2]))
              /\ At(sent, col)[1].t = "int" => At(sent, col)[1].n = DecimalValue(row[col + 2])
              /\ At(sent, col)[1].t \in {"int", "str"}

(* C7: no text value of an insert call, into either collection, holds a *)
(* single quote.                                                        *)
C7_NoQuoteInText ==
    Called => \A k \in 1..Len(sent) :
                 SentValue(k).t = "str" => \A i \in 1..Len(SentValue(k).s) : SentValue(k).s[i] # "'"

(* C8: every insert call carries one value per field of its collection's *)
(* schema, an integer for each INT64 field and a string for each VARCHAR *)
(* field.                                                                *)
C8_RecordConformsToSchema ==
    Called => /\ Len(sent) = Len(Fields(loading))
              /\ \A k \in 1..Len(sent) : Len(sent[k]) = 1
              /\ \A k \in 1..Len(Fields(loading)) :
                    /\ Fields(loading)[k].dtype = "INT64" => SentValue(k).t = "int"
                    /\ Fields(loading)[k].dtype = "VARCHAR" => SentValue(k).t = "str"

(* A movie row the loop rejects: short, or with an over-long text cell. *)
RejectedMovieRow(cells) ==
    \/ TooShort(cells)
    \/ \E col \in 0..(Len(cells) - 2) :
          ~ IsNumericColumn(cells[col + 2], col) /\ Len(cells[col + 2]) > MaxLen

(* The value of a call's k-th field comes from the k-th cell of the row. *)
FromCell(val, data) ==
    \/ val = PyStr(data)
    \/ val = PyStr(replace(data))
    \/ int(data).ok /\ val = int(data).val
    \/ literal_eval(data).ok /\ val = literal_eval(data).val
    \/ literal_eval(replace(data)).ok /\ val = literal_eval(replace(data)).val

C9_Step ==
    \* both collections are dropped and created anew before a file is opened
    /\ loading' # "none" => \A c \in Collections : colls'[c] = "fresh"
    \* a row is read only at the head of a loop, and reading inserts nothing
    /\ pos' > pos => /\ pos' = pos + 1
                     /\ pc \in {"movie_for", "user_for"}
                     /\ nIns' = nIns
                     /\ ~ Called'
    \* an insert call is one call, for the row read last, made before the next read
    /\ nIns' # nIns => /\ pc \in {"movie_body", "user_body"}
                       /\ pc' \in {"movie_for", "user_for"}
                       /\ nIns' = [nIns EXCEPT ![loading] = @ + 1]
                       /\ loading' = loading /\ pos' = pos /\ row' = row
                       /\ Called'
                       /\ Len(sent') = Len(row) - 1
                       /\ \A k \in 1..Len(sent') :
                             Len(sent'[k]) = 1 /\ FromCell(sent'[k][1], row[k + 1])
    /\ Called' => nIns' # nIns
    \* a rejected row causes no call
    /\ (pc = "movie_body" /\ RejectedMovieRow(row)) => (nIns' = nIns /\ ~ Called')
    \* the movie collection is loaded before the user collection
    /\ nIns'["movie"] # nIns["movie"] => (nIns["user"] = 0 /\ loading = "movie")
    /\ nIns'["user"] # nIns["user"] => loading = "user"

(* C9: ingestion is sequential: the collections are recreated before any  *)
(* row is read, each accepted row causes exactly one insert call carrying *)
(* that row before the next row is read, a rejected row causes none, and  *)
(* every movie insert precedes every user insert.                         *)
C9_Sequential == [][C9_Step]_vars

C9_Witness ==
    /\ pc = "user_for"
    /\ Called
    /\ nIns["movie"] = Limit + 1
    /\ nIns["user"] = 2

C10_Step ==
    /\ loading' # "none" => it' = nIns'[loading']
    /\ \A c \in Collections : nIns'[c] <= Limit + 1
    \* `it` moves only by an insert call or by the reset that opens a file
    /\ it' # it => \/ (it' = it + 1 /\ nIns' # nIns /\ Called')
                   \/ (it' = 0 /\ loading' # loading)

(* C10: `it` equals the number of completed insert calls into the       *)
(* collection being loaded, a row that is not inserted leaves it as it  *)
(* is, and no collection receives more than Limit+1 insert calls.       *)
C10_CounterCountsInserts == [][C10_Step]_vars

C10_Witness ==
    /\ pc = "movie_for"
    /\ it = Limit + 1
    /\ nIns["movie"] = Limit + 1
    /\ pos > Limit + 2
    /\ ~ Called
====
